---- MODULE Spec2Model ----
(***************************************************************************)
(* Model of the refuge (region) store of app.py: the file-backed           *)
(* collection of named polygons and the request handlers that create,      *)
(* rename, delete, adjoin, subtract, validate and apply overlays.          *)
(*                                                                         *)
(* Geometry is planar and exact.  The map is a strip of GridW unit squares *)
(* (cells 0 .. GridW-1, cell c being [c, c+1] x [0, 1]); a geometry is a   *)
(* set of cells, its area the number of cells, and its polygons            *)
(* (MultiPolygon.geoms) its maximal runs of neighbouring cells.  A point   *)
(* is a vertex of the strip, given by its x coordinate.                    *)
(***************************************************************************)
EXTENDS Integers, Sequences, FiniteSets, TLC

VARIABLES refuges, response, issued, disk, tmp, proc, paths

vars == <<refuges, response, issued, disk, tmp, proc, paths>>

\* what the refuge handlers leave alone when they are taken as one step: the
\* files and requests in progress of the file-level specifications, and the
\* paths
store == <<disk, tmp, proc, paths>>

(***************************************************************************)
(* Bounds of the model.                                                    *)
(***************************************************************************)
GridW == 3
MaxId == 3
MaxServed == 2
MaxPaths == 1
WideW == 4

(***************************************************************************)
(* Planar geometry on the strip.                                           *)
(***************************************************************************)
Cells == 0..(GridW - 1)

Empty == {}

Abs(n) == IF n < 0 THEN -n ELSE n

\* two cells share an edge: their union is one polygon
EdgeAdjacent(c, d) == Abs(c - d) = 1

\* the closed squares of two cells share at least a point
CellsMeet(c, d) == Abs(c - d) <= 1

Area(g) == Cardinality(g)

IsEmpty(g) == g = {}

\* BaseGeometry.intersects: the closed point sets share a point
Intersects(g, h) == \E c \in g, d \in h : CellsMeet(c, d)

\* BaseGeometry.touches: they meet, but their interiors do not
Touches(g, h) == Intersects(g, h) /\ g \cap h = {}

\* BaseGeometry.covers
Covers(g, h) == h \subseteq g

RECURSIVE Grow(_, _)
Grow(g, part) ==
    LET more == part \cup {c \in g : \E d \in part : EdgeAdjacent(c, d)}
    IN  IF more = part THEN part ELSE Grow(g, more)

\* the polygons of a geometry (MultiPolygon.geoms, or the Polygon itself)
Geoms(g) == {Grow(g, {c}) : c \in g}

GeomType(g) == IF Cardinality(Geoms(g)) = 1 THEN "Polygon" ELSE "MultiPolygon"

\* a vertex lies in the closed area of the geometry
CoversPoint(g, x) == \E c \in g : x \in {c, c + 1}

\* distance of a vertex to a cell
CellDistance(c, x) == IF x < c THEN c - x ELSE IF x > c + 1 THEN x - (c + 1) ELSE 0

\* Polygon.distance(Point)
Distance(g, x) ==
    LET ds == {CellDistance(c, x) : c \in g}
    IN  CHOOSE m \in ds : \A d \in ds : m <= d

_make_valid_polygonal(g) == g

RECURSIVE UnionAll(_)
UnionAll(gs) ==
    IF gs = <<>> THEN {} ELSE Head(gs) \cup UnionAll(Tail(gs))

_safe_unary_union(gs) ==
    LET cleaned == SelectSeq(gs, LAMBDA g : ~IsEmpty(_make_valid_polygonal(g)))
    IN  IF cleaned = <<>> THEN Empty
        ELSE IF Len(cleaned) = 1 THEN cleaned[1]
        ELSE _make_valid_polygonal(UnionAll(cleaned))

_safe_difference(a, b) == a \ b

_count_components(g) == IF IsEmpty(g) THEN 0 ELSE Cardinality(Geoms(g))

(***************************************************************************)
(* Names: strings as sequences of characters, with str.strip and           *)
(* str.lower computed character by character.                              *)
(***************************************************************************)
RECURSIVE LStrip(_)
LStrip(s) == IF s # <<>> /\ Head(s) = " " THEN LStrip(Tail(s)) ELSE s

RECURSIVE RStrip(_)
RStrip(s) ==
    IF s # <<>> /\ s[Len(s)] = " " THEN RStrip(SubSeq(s, 1, Len(s) - 1)) ELSE s

Strip(s) == RStrip(LStrip(s))

LowerChar(ch) == CASE ch = "A" -> "a" [] ch = "B" -> "b" [] OTHER -> ch

Lower(s) == [i \in DOMAIN s |-> LowerChar(s[i])]

(***************************************************************************)
(* Request inputs.                                                         *)
(***************************************************************************)
RawNames == {<<>>, <<" ">>, <<"A">>, <<" ", "a">>, <<"B", " ">>}

\* the rectangle over cells lo .. hi
Box(lo, hi) == {c \in Cells : lo <= c /\ c <= hi}

Boxes == {Box(lo, hi) : lo \in Cells, hi \in Cells} \ {{}}

MinX(g) == CHOOSE x \in g : \A c \in g : x <= c
MaxX(g) == CHOOSE x \in g : \A c \in g : x >= c

\* a GeoJSON geometry object: its type, the area its coordinates enclose and
\* the first vertex of its exterior ring
GeoJSON(type, cells, first) == [type |-> type, cells |-> cells, first |-> first]

\* rectangles as GeoJSON Polygons, the ring starting at the lower-left or at
\* the upper-right corner
Polygons ==
    {GeoJSON("Polygon", r, MinX(r)) : r \in Boxes}
        \cup {GeoJSON("Polygon", r, MaxX(r) + 1) : r \in Boxes}

\* payloads the handlers refuse: a missing polygon, a Polygon without
\* coordinates
NoGeometry == GeoJSON("None", {}, 0)
NoCoordinates == GeoJSON("Polygon", {}, 0)

\* overlays: rectangles as Polygons, two separate squares as a MultiPolygon,
\* and the refused payloads
OverlayPolygons == {GeoJSON("Polygon", r, MinX(r)) : r \in Boxes}

Separated ==
    {g \in SUBSET Cells : Cardinality(g) = 2 /\ \A c \in g, d \in g : c # d => Abs(c - d) > 1}

OverlayMultiPolygons == {GeoJSON("MultiPolygon", g, MinX(g)) : g \in Separated}

Overlays == OverlayPolygons \cup OverlayMultiPolygons \cup {NoGeometry, NoCoordinates}

\* the lists of overlays of an apply-overlays request: none or one
ApplyLists == {<<>>} \cup {<<o>> : o \in Overlays}

\* the lists of overlays of an adjoin or subtract request: none, one, or two
\* single squares
OverlayLists ==
    ApplyLists \cup {<<GeoJSON("Polygon", {c}, c), GeoJSON("Polygon", {d}, d)>> :
                        c \in Cells, d \in Cells}

CreatePayloads == Polygons \cup {NoGeometry, NoCoordinates}

Operations == {"subtract", "adjoin"}


(***************************************************************************)
(* The files.  refuges.json holds the text json.dump writes: an opening,   *)
(* one item for each refuge, a closing.  A text is a sequence of tokens; a *)
(* write puts one token at the offset of the writer's file handle.         *)
(***************************************************************************)
NoItem == [id |-> 0, name |-> <<>>, polygon |-> {}]

Token(kind, item) == [kind |-> kind, item |-> item]

\* zero bytes, where a write lands beyond the end of the file
Nul == Token("nul", NoItem)

\* json.dump({"refuges": refuges}, f)
Dumped(refs) ==
    <<Token("open", NoItem)>> \o [i \in DOMAIN refs |-> Token("item", refs[i])]
        \o <<Token("close", NoItem)>>

\* json.load succeeds on the text
Loadable(text) ==
    /\ Len(text) >= 2
    /\ text[1].kind = "open" /\ text[Len(text)].kind = "close"
    /\ \A i \in 2..(Len(text) - 1) : text[i].kind = "item"

Loaded(text) == [i \in 1..(Len(text) - 2) |-> text[i + 1].item]

\* the collection read from refuges.json, empty when the file does not load
_read_refuges(text) == IF Loadable(text) THEN Loaded(text) ELSE <<>>

NoFile == [exists |-> FALSE, text |-> <<>>]

File(text) == [exists |-> TRUE, text |-> text]

\* the text after a write of one token at position pos
WriteAt(text, pos, token) ==
    [i \in 1..(IF Len(text) > pos THEN Len(text) ELSE pos) |->
        IF i = pos THEN token ELSE IF i <= Len(text) THEN text[i] ELSE Nul]

\* the requests served at the same time
Procs == {1, 2}

\* a request not being served
IdleProc ==
    [pc |-> "idle", data |-> <<>>, base |-> <<>>, off |-> 0, handle |-> "none",
     failed |-> FALSE, code |-> 0, served |-> 0]

\* the worker, idle again, after the requests it has served
Idle(p) == [IdleProc EXCEPT !.served = proc[p].served]

(***************************************************************************)
(* The outcome of a request: the HTTP status, the branch that produced it, *)
(* the collection persisted afterwards, the number of _write_refuges calls *)
(* and the refuge the response carries (0: none).                          *)
(***************************************************************************)
Outcome(code, kind, refs, writes, id) ==
    [code |-> code, kind |-> kind, refuges |-> refs, writes |-> writes, id |-> id]

Rejected(code, kind, refs) == Outcome(code, kind, refs, 0, 0)

Ids(refs) == {refs[i].id : i \in DOMAIN refs}

\* index of the first refuge with the id, 0 when there is none
FindIdx(refs, refuge_id) ==
    IF \E i \in DOMAIN refs : refs[i].id = refuge_id
    THEN CHOOSE i \in DOMAIN refs :
            refs[i].id = refuge_id /\ \A j \in DOMAIN refs : refs[j].id = refuge_id => i <= j
    ELSE 0

Pop(refs, idx) == SubSeq(refs, 1, idx - 1) \o SubSeq(refs, idx + 1, Len(refs))

(***************************************************************************)
(* create_refuge                                                           *)
(***************************************************************************)
\* mutant of NameTaken: the stored names are compared as they are, neither
\* stripped nor lowered
NameTakenExact(refs, lower_name, skip) ==
    \E i \in DOMAIN refs : i # skip /\ refs[i].name = lower_name

\* mutant of NameTaken: a name only collides with the name of the last refuge
NameTakenByLast(refs, lower_name, skip) ==
    refs # <<>> /\ Len(refs) # skip /\ Lower(Strip(refs[Len(refs)].name)) = lower_name

NameTaken(refs, lower_name, skip) ==
    \E i \in DOMAIN refs : i # skip /\ Lower(Strip(refs[i].name)) = lower_name

ExistingGeoms(refs) ==
    LET all == [i \in DOMAIN refs |-> _make_valid_polygonal(refs[i].polygon)]
    IN  SelectSeq(all, LAMBDA g : ~IsEmpty(g))

RECURSIVE SubtractEach(_, _)
SubtractEach(g, gs) ==
    IF gs = <<>> THEN g
    ELSE SubtractEach(IF IsEmpty(g) THEN g ELSE _safe_difference(g, Head(gs)), Tail(gs))

\* mutant of CarveExisting: only the refuges the candidate covers are carved
\* out, the second subtraction is forgotten
CarveContainedOnly(new_geom, refs) ==
    LET contained_geoms == SelectSeq(ExistingGeoms(refs), LAMBDA g : Covers(new_geom, g))
    IN  _safe_difference(new_geom, _safe_unary_union(contained_geoms))

\* mutant of CarveExisting: the cells next to an existing refuge are carved
\* out as well
CarveWithMargin(new_geom, refs) ==
    LET taken == UNION {refs[i].polygon : i \in DOMAIN refs}
    IN  {c \in new_geom \ taken : \A d \in taken : ~EdgeAdjacent(c, d)}

CarveExisting(new_geom, refs) ==
    LET existing_geoms == ExistingGeoms(refs)
        contained_geoms == SelectSeq(existing_geoms, LAMBDA g : Covers(new_geom, g))
        contained_union == _safe_unary_union(contained_geoms)
        holed == IF contained_geoms # <<>> /\ ~IsEmpty(contained_union)
                 THEN _safe_difference(new_geom, contained_union)
                 ELSE new_geom
    IN  IF existing_geoms = <<>> THEN holed
        ELSE SubtractEach(_safe_difference(holed, _safe_unary_union(existing_geoms)),
                          existing_geoms)

\* mutant of KeptParts: the first part from the left is kept, wherever the
\* first vertex lies
KeptLeftmost(result_geom, first_point) ==
    {Grow(result_geom, {CHOOSE c \in result_geom : \A d \in result_geom : c <= d})}

\* the parts of a MultiPolygon result that create may keep: those holding the
\* first vertex, else those nearest to it (the first such in geoms order, an
\* order the source does not fix)
KeptParts(result_geom, first_point) ==
    LET parts == Geoms(result_geom)
        holding == {p \in parts : CoversPoint(p, first_point)}
    IN  IF holding # {} THEN holding
        ELSE {p \in parts : \A q \in parts : Distance(p, first_point) <= Distance(q, first_point)}

\* mutant of NewId: the id is the number of refuges plus one
NewIdByCount(refs) == Len(refs) + 1

NewId(refs) == IF refs # <<>> THEN refs[Len(refs)].id + 1 ELSE 1

\* mutant of create_refuge: the new refuge replaces the collection
CreateReplacingAll(refs, name, polygon) ==
    IF polygon.type # "Polygon" \/ polygon.cells = {} \/ Strip(name) = <<>>
    THEN {Rejected(400, "invalid_polygon", refs)}
    ELSE {Outcome(201, "ok",
                  <<[id |-> NewId(refs), name |-> Strip(name), polygon |-> polygon.cells]>>,
                  1, NewId(refs))}

create_refuge(refs, name, polygon) ==
    IF polygon.type # "Polygon" \/ polygon.cells = {}
    THEN {Rejected(400, "invalid_polygon", refs)}
    ELSE LET incoming_name == Strip(name)
             result_geom == CarveExisting(_make_valid_polygonal(polygon.cells), refs)
             kept == IF GeomType(result_geom) = "MultiPolygon"
                     THEN KeptParts(result_geom, polygon.first)
                     ELSE {result_geom}
         IN  IF incoming_name = <<>>
             THEN {Rejected(400, "name_required", refs)}
             ELSE IF NameTaken(refs, Lower(incoming_name), 0)
             THEN {Rejected(409, "duplicate_name", refs)}
             ELSE IF IsEmpty(result_geom) \/ Area(result_geom) <= 0
             THEN {Rejected(400, "nothing_left", refs)}
             ELSE {Outcome(201, "ok",
                           Append(refs, [id |-> NewId(refs), name |-> incoming_name,
                                         polygon |-> k]),
                           1, NewId(refs)) : k \in kept}

(***************************************************************************)
(* update_refuge, delete_refuge                                            *)
(***************************************************************************)
\* mutant of list_refuges: the ids are renumbered and the collection saved
ListAndRenumber(refs) ==
    Outcome(200, "ok", [i \in DOMAIN refs |-> [refs[i] EXCEPT !.id = i]], 1, 0)

\* GET /api/refuges: the collection as read, nothing written
list_refuges(refs) == Outcome(200, "ok", refs, 0, 0)

\* mutant of update_refuge: the renamed refuge is moved to the end
RenameAndMoveLast(refs, refuge_id, name) ==
    LET idx == FindIdx(refs, refuge_id)
    IN  IF Strip(name) = <<>> THEN Rejected(400, "name_required", refs)
        ELSE IF idx = 0 THEN Rejected(404, "not_found", refs)
        ELSE IF NameTaken(refs, Lower(Strip(name)), idx)
        THEN Rejected(409, "duplicate_name", refs)
        ELSE Outcome(200, "ok",
                     Append(Pop(refs, idx), [refs[idx] EXCEPT !.name = Strip(name)]),
                     1, refuge_id)

update_refuge(refs, refuge_id, name) ==
    LET new_name == Strip(name)
        idx == FindIdx(refs, refuge_id)
    IN  IF new_name = <<>> THEN Rejected(400, "name_required", refs)
        ELSE IF idx = 0 THEN Rejected(404, "not_found", refs)
        ELSE IF NameTaken(refs, Lower(new_name), idx)
        THEN Rejected(409, "duplicate_name", refs)
        ELSE Outcome(200, "ok", [refs EXCEPT ![idx].name = new_name], 1, refuge_id)

\* mutant of delete_refuge: the refuges stored after the deleted one go with
\* it
DeleteThroughEnd(refs, refuge_id) ==
    LET idx == FindIdx(refs, refuge_id)
    IN  IF idx = 0 THEN Rejected(404, "not_found", refs)
        ELSE Outcome(200, "ok", SubSeq(refs, 1, idx - 1), 1, refuge_id)

delete_refuge(refs, refuge_id) ==
    LET idx == FindIdx(refs, refuge_id)
    IN  IF idx = 0 THEN Rejected(404, "not_found", refs)
        ELSE Outcome(200, "ok", Pop(refs, idx), 1, refuge_id)

(***************************************************************************)
(* Paths: create_path and update_path, and the query that tags a path with *)
(* the refuge its last point lies in.  A point is a vertex of the strip;   *)
(* None stands for Python's None (no refuge id), NoName for no refuge      *)
(* name, NoCoordinate for a point without usable lat and lng.              *)
(***************************************************************************)
None == 0
NoName == <<>>
NoCoordinate == 0 - 1

Vertices == 0..GridW

PathNames == {<<>>, <<"P", " ">>}

PointLists ==
    {<<>>, <<NoCoordinate>>, <<GridW, 0>>, <<0, GridW>>} \cup {<<x>> : x \in Vertices}

PathOutcome(code, kind, pths, writes, id) ==
    [code |-> code, kind |-> kind, paths |-> pths, writes |-> writes, id |-> id]

\* mutant of _find_refuge_containing_point: the last refuge that covers the
\* point is returned
FindLastContaining(refs, pt) ==
    LET hits == {i \in DOMAIN refs : CoversPoint(refs[i].polygon, pt)}
    IN  IF hits = {} THEN 0 ELSE CHOOSE i \in hits : \A j \in hits : j <= i

\* the index of the refuge returned, 0 for None
_find_refuge_containing_point(refs, pt) ==
    LET hits == {i \in DOMAIN refs :
                    /\ ~IsEmpty(_make_valid_polygonal(refs[i].polygon))
                    /\ CoversPoint(_make_valid_polygonal(refs[i].polygon), pt)}
    IN  IF pt = NoCoordinate \/ hits = {} THEN 0
        ELSE CHOOSE i \in hits : \A j \in hits : i <= j

MaxPathId(pths) == CHOOSE m \in Ids(pths) : \A x \in Ids(pths) : x <= m

\* POST /api/paths
create_path(pths, name) ==
    IF Strip(name) = <<>> THEN PathOutcome(400, "name_required", pths, 0, 0)
    ELSE LET next_id == IF pths # <<>> THEN MaxPathId(pths) + 1 ELSE 1
         IN  PathOutcome(201, "ok",
                         Append(pths, [id |-> next_id, name |-> Strip(name), points |-> <<>>,
                                       refuge_id |-> None, refuge_name |-> NoName]),
                         1, next_id)

\* mutant of update_path: the path is tagged with the refuge of its first
\* point
UpdatePathByFirstPoint(pths, refs, path_id, name, points) ==
    LET idx == FindIdx(pths, path_id)
        matched == IF points = <<>> THEN 0 ELSE _find_refuge_containing_point(refs, points[1])
    IN  IF Strip(name) = <<>> THEN PathOutcome(400, "name_required", pths, 0, 0)
        ELSE IF points = <<>> THEN PathOutcome(400, "no_points", pths, 0, 0)
        ELSE IF matched = 0 THEN PathOutcome(400, "outside", pths, 0, 0)
        ELSE IF idx = 0 THEN PathOutcome(404, "not_found", pths, 0, 0)
        ELSE PathOutcome(200, "ok",
                         [pths EXCEPT ![idx] = [@ EXCEPT !.name = Strip(name),
                                                         !.points = points,
                                                         !.refuge_id = refs[matched].id,
                                                         !.refuge_name = refs[matched].name]],
                         1, path_id)

\* PUT /api/paths/<path_id>
update_path(pths, refs, path_id, name, points) ==
    LET idx == FindIdx(pths, path_id)
        end_point == points[Len(points)]
        matched_refuge == _find_refuge_containing_point(refs, end_point)
    IN  IF Strip(name) = <<>> THEN PathOutcome(400, "name_required", pths, 0, 0)
        ELSE IF points = <<>> THEN PathOutcome(400, "no_points", pths, 0, 0)
        ELSE IF end_point = NoCoordinate THEN PathOutcome(400, "no_endpoint", pths, 0, 0)
        ELSE IF matched_refuge = 0 THEN PathOutcome(400, "outside", pths, 0, 0)
        ELSE IF idx = 0 THEN PathOutcome(404, "not_found", pths, 0, 0)
        ELSE PathOutcome(200, "ok",
                         [pths EXCEPT ![idx] = [@ EXCEPT !.name = Strip(name),
                                                         !.points = points,
                                                         !.refuge_id = refs[matched_refuge].id,
                                                         !.refuge_name = refs[matched_refuge].name]],
                         1, path_id)

(***************************************************************************)
(* Overlay editing: adjoin, subtract, validate, apply.                     *)
(***************************************************************************)
\* adjoin_overlays and subtract_overlays take GeoJSON Polygons with
\* coordinates and skip every other overlay
PolygonGeoms(overlays) ==
    LET usable == SelectSeq(overlays, LAMBDA o : o.type = "Polygon" /\ o.cells # {})
    IN  [i \in DOMAIN usable |-> usable[i].cells]

_to_geometries(items) ==
    LET usable == SelectSeq(items, LAMBDA o :
                      /\ o.type \in {"Polygon", "MultiPolygon"}
                      /\ o.cells # {}
                      /\ ~IsEmpty(_make_valid_polygonal(o.cells)))
    IN  [i \in DOMAIN usable |-> _make_valid_polygonal(usable[i].cells)]

UnrelatedGeoms(refs, refuge_id) ==
    LET others == SelectSeq(refs, LAMBDA r : r.id # refuge_id)
        geoms == [i \in DOMAIN others |-> _make_valid_polygonal(others[i].polygon)]
    IN  SelectSeq(geoms, LAMBDA g : ~IsEmpty(g))

\* mutant of CleanOverlays: the overlays are adjoined as they were sent
KeepOverlays(overlay_geoms, refs, refuge_id) == overlay_geoms

\* mutant of CleanOverlays: only the overlays that lie wholly inside other
\* refuges are dropped, the others are adjoined as they were sent
DropCoveredOverlays(overlay_geoms, refs, refuge_id) ==
    SelectSeq(overlay_geoms,
              LAMBDA g : ~(g \subseteq UnionAll(UnrelatedGeoms(refs, refuge_id))))

\* the overlays less the area of every other refuge; overlays left with no
\* area are dropped
CleanOverlays(overlay_geoms, refs, refuge_id) ==
    LET unrelated_refuge_geoms == UnrelatedGeoms(refs, refuge_id)
        unrelated_union == _safe_unary_union(unrelated_refuge_geoms)
        cleaned == [i \in DOMAIN overlay_geoms |->
                       _make_valid_polygonal(_safe_difference(overlay_geoms[i], unrelated_union))]
    IN  IF unrelated_refuge_geoms # <<>> /\ ~IsEmpty(unrelated_union)
        THEN SelectSeq(cleaned, LAMBDA g : ~IsEmpty(g) /\ Area(g) > 0)
        ELSE overlay_geoms

RECURSIVE SubtractFromOthers(_, _, _)
SubtractFromOthers(refs, target_id, overlay_geom) ==
    IF refs = <<>> THEN [refuges |-> <<>>, removed |-> <<>>]
    ELSE LET refuge == Head(refs)
             rest == SubtractFromOthers(Tail(refs), target_id, overlay_geom)
             geom == _make_valid_polygonal(refuge.polygon)
             new_geom == _make_valid_polygonal(_safe_difference(geom, overlay_geom))
         IN  IF refuge.id = target_id \/ IsEmpty(geom) \/ ~Intersects(geom, overlay_geom)
             THEN [rest EXCEPT !.refuges = <<refuge>> \o @]
             ELSE IF IsEmpty(new_geom) \/ Area(new_geom) <= 0
             THEN [rest EXCEPT !.removed = <<refuge.id>> \o @]
             ELSE [rest EXCEPT !.refuges = <<[refuge EXCEPT !.polygon = new_geom]>> \o @]

_subtract_overlay_from_other_refuges(refs, target_id, overlay_geom) ==
    IF IsEmpty(_make_valid_polygonal(overlay_geom))
    THEN [refuges |-> refs, removed |-> <<>>]
    ELSE SubtractFromOthers(refs, target_id, _make_valid_polygonal(overlay_geom))

\* mutant of CommitAdjoin: the target is taken out and stored again at the end
CommitAdjoinAtEnd(refs, idx, result_geom, overlays_union) ==
    Append(Pop(refs, idx), [refs[idx] EXCEPT !.polygon = result_geom])

\* the collection to write: the target with its new geometry, the other
\* refuges less the adjoined area, the target re-appended should it be gone
CommitAdjoin(refs, idx, result_geom, overlays_union) ==
    LET target == [refs[idx] EXCEPT !.polygon = result_geom]
        stored == [refs EXCEPT ![idx] = target]
        swept == _subtract_overlay_from_other_refuges(stored, target.id, overlays_union).refuges
    IN  IF IsEmpty(overlays_union) THEN stored
        ELSE IF FindIdx(swept, target.id) = 0 THEN Append(swept, target)
        ELSE swept

adjoin_overlays(refs, refuge_id, overlays) ==
    LET idx == FindIdx(refs, refuge_id)
        current_geom == _make_valid_polygonal(refs[idx].polygon)
        parsed == PolygonGeoms(overlays)
        overlay_geoms == CleanOverlays(parsed, refs, refuge_id)
        result_geom == _safe_unary_union(<<current_geom>> \o overlay_geoms)
        overlays_union == _make_valid_polygonal(_safe_unary_union(overlay_geoms))
    IN  IF overlays = <<>> THEN Rejected(400, "no_overlays", refs)
        ELSE IF idx = 0 THEN Rejected(404, "not_found", refs)
        ELSE IF IsEmpty(current_geom) THEN Rejected(500, "stored_empty", refs)
        ELSE IF parsed = <<>> THEN Rejected(400, "no_valid_overlays", refs)
        ELSE IF overlay_geoms = <<>> THEN Rejected(400, "all_overlapped", refs)
        ELSE IF IsEmpty(result_geom) \/ Area(result_geom) <= 0
        THEN Rejected(400, "empty_result", refs)
        ELSE Outcome(200, "ok", CommitAdjoin(refs, idx, result_geom, overlays_union),
                     1, refuge_id)

RECURSIVE DifferenceAll(_, _)
DifferenceAll(g, gs) ==
    IF gs = <<>> THEN g ELSE DifferenceAll(_safe_difference(g, Head(gs)), Tail(gs))

\* mutant of subtract_overlays: a result with no area is saved like any other
SubtractUnchecked(refs, refuge_id, overlays) ==
    LET idx == FindIdx(refs, refuge_id)
        result_geom == DifferenceAll(refs[idx].polygon, PolygonGeoms(overlays))
    IN  IF idx = 0 THEN Rejected(404, "not_found", refs)
        ELSE IF PolygonGeoms(overlays) = <<>> THEN Rejected(400, "no_valid_overlays", refs)
        ELSE Outcome(200, "ok", [refs EXCEPT ![idx].polygon = result_geom], 1, refuge_id)

\* mutant of subtract_overlays: the result is saved before it is checked
SubtractThenCheck(refs, refuge_id, overlays) ==
    LET idx == FindIdx(refs, refuge_id)
        result_geom == DifferenceAll(refs[idx].polygon, PolygonGeoms(overlays))
        saved == [refs EXCEPT ![idx].polygon = result_geom]
    IN  IF idx = 0 THEN Rejected(404, "not_found", refs)
        ELSE IF PolygonGeoms(overlays) = <<>> THEN Rejected(400, "no_valid_overlays", refs)
        ELSE IF IsEmpty(result_geom) THEN Outcome(400, "remove_entire", saved, 1, 0)
        ELSE Outcome(200, "ok", saved, 1, refuge_id)

subtract_overlays(refs, refuge_id, overlays) ==
    LET idx == FindIdx(refs, refuge_id)
        current_geom == _make_valid_polygonal(refs[idx].polygon)
        overlay_geoms == PolygonGeoms(overlays)
        result_geom == DifferenceAll(current_geom, overlay_geoms)
    IN  IF overlays = <<>> THEN Rejected(400, "no_overlays", refs)
        ELSE IF idx = 0 THEN Rejected(404, "not_found", refs)
        ELSE IF IsEmpty(current_geom) THEN Rejected(500, "stored_empty", refs)
        ELSE IF overlay_geoms = <<>> THEN Rejected(400, "no_valid_overlays", refs)
        ELSE IF IsEmpty(result_geom) \/ Area(result_geom) <= 0
        THEN Rejected(400, "remove_entire", refs)
        ELSE Outcome(200, "ok", [refs EXCEPT ![idx].polygon = result_geom], 1, refuge_id)

\* mutant of validate_overlay_operation: the validation is done by running
\* the subtraction itself
ValidateBySubtracting(refs, refuge_id, overlay, operation) ==
    IF operation # "subtract" THEN Rejected(400, "unsupported", refs)
    ELSE subtract_overlays(refs, refuge_id, <<overlay>>)

validate_overlay_operation(refs, refuge_id, overlay, operation) ==
    LET idx == FindIdx(refs, refuge_id)
        current_geom == _make_valid_polygonal(refs[idx].polygon)
        overlay_geom == _make_valid_polygonal(overlay.cells)
        result_geom == _make_valid_polygonal(_safe_difference(current_geom, overlay_geom))
    IN  IF operation # "subtract" THEN Rejected(400, "unsupported", refs)
        ELSE IF overlay.type \notin {"Polygon", "MultiPolygon"}
        THEN Rejected(400, "invalid_overlay", refs)
        ELSE IF idx = 0 THEN Rejected(404, "not_found", refs)
        ELSE IF IsEmpty(current_geom) THEN Rejected(500, "stored_empty", refs)
        ELSE IF IsEmpty(overlay_geom) THEN Rejected(400, "no_area", refs)
        ELSE IF IsEmpty(result_geom) \/ Area(result_geom) <= 0
        THEN Rejected(400, "remove_entire", refs)
        ELSE IF _count_components(result_geom) > 1
        THEN Rejected(400, "fragmentation", refs)
        ELSE Outcome(200, "ok", refs, 0, 0)

\* the parts of the adjoined geometry that intersect or touch the original
\* refuge; the original geometry when none does
ConnectedParts(result_geom, current_geom) ==
    LET connected_parts == {p \in Geoms(result_geom) :
                                Intersects(p, current_geom) \/ Touches(p, current_geom)}
    IN  IF GeomType(result_geom) # "MultiPolygon" THEN result_geom
        ELSE IF connected_parts = {} THEN current_geom
        ELSE _make_valid_polygonal(UNION connected_parts)

\* mutant of apply_overlay_changes: the adjoin is committed before the
\* subtraction is attempted
ApplyInTwoCommits(refs, refuge_id, adjoin_payload, subtract_payload) ==
    LET a == IF adjoin_payload # <<>> THEN adjoin_overlays(refs, refuge_id, adjoin_payload)
             ELSE Outcome(200, "ok", refs, 0, refuge_id)
        b == subtract_overlays(a.refuges, refuge_id, subtract_payload)
    IN  IF a.kind # "ok" \/ subtract_payload = <<>> THEN a
        ELSE [b EXCEPT !.writes = a.writes + @]

apply_overlay_changes(refs, refuge_id, adjoin_payload, subtract_payload) ==
    LET idx == FindIdx(refs, refuge_id)
        current_geom == _make_valid_polygonal(refs[idx].polygon)
        parsed == _to_geometries(adjoin_payload)
        adjoin_geoms == IF parsed # <<>> THEN CleanOverlays(parsed, refs, refuge_id) ELSE parsed
        subtract_geoms == _to_geometries(subtract_payload)
        adjoin_union_for_others ==
            IF adjoin_geoms # <<>>
            THEN _make_valid_polygonal(_safe_unary_union(adjoin_geoms))
            ELSE Empty
        adjoined == _safe_unary_union(<<current_geom>> \o adjoin_geoms)
        grown == IF adjoin_geoms # <<>> THEN ConnectedParts(adjoined, current_geom)
                 ELSE current_geom
        shrunk == IF subtract_geoms # <<>>
                  THEN _make_valid_polygonal(DifferenceAll(grown, subtract_geoms))
                  ELSE grown
        result_geom == _make_valid_polygonal(shrunk)
    IN  IF adjoin_payload = <<>> /\ subtract_payload = <<>>
        THEN Rejected(400, "no_overlays", refs)
        ELSE IF idx = 0 THEN Rejected(404, "not_found", refs)
        ELSE IF IsEmpty(current_geom) THEN Rejected(500, "stored_empty", refs)
        ELSE IF adjoin_geoms # <<>> /\ (IsEmpty(adjoined) \/ Area(adjoined) <= 0)
        THEN Rejected(400, "empty_result", refs)
        ELSE IF adjoin_geoms # <<>> /\ (IsEmpty(grown) \/ Area(grown) <= 0)
        THEN Rejected(400, "empty_result", refs)
        ELSE IF subtract_geoms # <<>> /\ (IsEmpty(shrunk) \/ Area(shrunk) <= 0)
        THEN Rejected(400, "remove_entire", refs)
        ELSE IF subtract_geoms # <<>> /\ _count_components(shrunk) > 1
        THEN Rejected(400, "fragmentation", refs)
        ELSE IF IsEmpty(result_geom) THEN Rejected(400, "not_polygon", refs)
        ELSE Outcome(200, "ok", CommitAdjoin(refs, idx, result_geom, adjoin_union_for_others),
                     1, refuge_id)

(***************************************************************************)
(* The state machine: requests are served one at a time against the        *)
(* persisted collection.  A handler runs to completion in one step and     *)
(* leaves its response in flight; the next request is served once the      *)
(* response has been sent.                                                 *)
(*   refuges   the persisted collection (refuges.json)                     *)
(*   response  the response in flight, NoResponse when none                *)
(*   issued    history: the ids given to refuges so far                    *)
(***************************************************************************)
NoResponse ==
    [op |-> "none", code |-> 0, kind |-> "none", id |-> 0, writes |-> 0,
     overlapped |-> {}, adding |-> FALSE]

\* the ids of the refuges, other than the target, whose area the geometry a
\* request brings (the candidate, the adjoin overlays) overlaps
Overlapped(refs, refuge_id, geoms) ==
    {refs[i].id : i \in {j \in DOMAIN refs :
                            refs[j].id # refuge_id /\ refs[j].polygon \cap UnionAll(geoms) # {}}}

Responded(op, o, overlapped, adding) ==
    [op |-> op, code |-> o.code, kind |-> o.kind, id |-> o.id, writes |-> o.writes,
     overlapped |-> overlapped, adding |-> adding]

Targets == Ids(refuges) \cup {0}

Init ==
    /\ refuges = <<>>
    /\ response = NoResponse
    /\ issued = {}
    /\ disk = Dumped(<<>>)
    /\ tmp = NoFile
    /\ proc = [p \in Procs |-> IdleProc]
    /\ paths = <<>>

\* GET /api/refuges
ListRefuges ==
    LET o == list_refuges(refuges)
    IN  /\ refuges' = o.refuges
        /\ response' = Responded("list", o, {}, FALSE)
        /\ UNCHANGED issued

\* POST /api/refuges
CreateRefuge(name, polygon) ==
    \E o \in create_refuge(refuges, name, polygon) :
        /\ o.id <= MaxId
        /\ refuges' = o.refuges
        /\ response' = Responded("create", o, Overlapped(refuges, 0, <<polygon.cells>>),
                                 polygon.cells # {})
        /\ issued' = IF o.kind = "ok" THEN issued \cup {o.id} ELSE issued

\* PUT /api/refuges/<refuge_id>
UpdateRefuge(refuge_id, name) ==
    LET o == update_refuge(refuges, refuge_id, name)
    IN  /\ refuges' = o.refuges
        /\ response' = Responded("update", o, {}, FALSE)
        /\ UNCHANGED issued

\* DELETE /api/refuges/<refuge_id>
DeleteRefuge(refuge_id) ==
    LET o == delete_refuge(refuges, refuge_id)
    IN  /\ refuges' = o.refuges
        /\ response' = Responded("delete", o, {}, FALSE)
        /\ UNCHANGED issued

\* POST /api/refuges/<refuge_id>/adjoin
AdjoinOverlays(refuge_id, overlays) ==
    LET o == adjoin_overlays(refuges, refuge_id, overlays)
    IN  /\ refuges' = o.refuges
        /\ response' = Responded("adjoin", o,
                                 Overlapped(refuges, refuge_id, PolygonGeoms(overlays)),
                                 PolygonGeoms(overlays) # <<>>)
        /\ UNCHANGED issued

\* POST /api/refuges/<refuge_id>/subtract
SubtractOverlays(refuge_id, overlays) ==
    LET o == subtract_overlays(refuges, refuge_id, overlays)
    IN  /\ refuges' = o.refuges
        /\ response' = Responded("subtract", o, {}, FALSE)
        /\ UNCHANGED issued

\* POST /api/refuges/<refuge_id>/validate-overlay
ValidateOverlayOperation(refuge_id, overlay, operation) ==
    LET o == validate_overlay_operation(refuges, refuge_id, overlay, operation)
    IN  /\ refuges' = o.refuges
        /\ response' = Responded("validate", o, {}, FALSE)
        /\ UNCHANGED issued

\* POST /api/refuges/<refuge_id>/apply-overlays
ApplyOverlayChanges(refuge_id, adjoin_payload, subtract_payload) ==
    LET o == apply_overlay_changes(refuges, refuge_id, adjoin_payload, subtract_payload)
    IN  /\ refuges' = o.refuges
        /\ response' = Responded("apply", o,
                                 Overlapped(refuges, refuge_id, _to_geometries(adjoin_payload)),
                                 _to_geometries(adjoin_payload) # <<>>)
        /\ UNCHANGED issued

List ==
    /\ response = NoResponse
    /\ UNCHANGED store
    /\ ListRefuges

Create ==
    /\ response = NoResponse
    /\ UNCHANGED store
    /\ \E name \in RawNames, polygon \in CreatePayloads : CreateRefuge(name, polygon)

Update ==
    /\ response = NoResponse
    /\ UNCHANGED store
    /\ \E refuge_id \in Targets, name \in RawNames : UpdateRefuge(refuge_id, name)

Delete ==
    /\ response = NoResponse
    /\ UNCHANGED store
    /\ \E refuge_id \in Targets : DeleteRefuge(refuge_id)

Adjoin ==
    /\ response = NoResponse
    /\ UNCHANGED store
    /\ \E refuge_id \in Targets, overlays \in OverlayLists : AdjoinOverlays(refuge_id, overlays)

Subtract ==
    /\ response = NoResponse
    /\ UNCHANGED store
    /\ \E refuge_id \in Targets, overlays \in OverlayLists : SubtractOverlays(refuge_id, overlays)

Validate ==
    /\ response = NoResponse
    /\ UNCHANGED store
    /\ \E refuge_id \in Targets, overlay \in Overlays, operation \in Operations :
            ValidateOverlayOperation(refuge_id, overlay, operation)

Apply ==
    /\ response = NoResponse
    /\ UNCHANGED store
    /\ \E refuge_id \in Targets, adjoin_payload \in ApplyLists, subtract_payload \in ApplyLists :
            ApplyOverlayChanges(refuge_id, adjoin_payload, subtract_payload)

SendResponse ==
    /\ response # NoResponse
    /\ response' = NoResponse
    /\ UNCHANGED <<refuges, issued>>
    /\ UNCHANGED store

Next ==
    \/ List
    \/ Create
    \/ Update
    \/ Delete
    \/ Adjoin
    \/ Subtract
    \/ Validate
    \/ Apply
    \/ SendResponse

Spec == Init /\ [][Next]_vars

(***************************************************************************)
(* Refuges and paths together: refuges are created, renamed and deleted    *)
(* while paths are created and updated.                                    *)
(*   paths  the persisted paths (paths.json)                               *)
(***************************************************************************)
CreatePath ==
    /\ response = NoResponse
    /\ UNCHANGED <<refuges, issued, disk, tmp, proc>>
    /\ \E name \in PathNames :
          LET o == create_path(paths, name)
          IN  /\ o.id <= MaxPaths
              /\ paths' = o.paths
              /\ response' = Responded("create_path", o, {}, FALSE)

UpdatePathOf(path_id, name, points) ==
    LET o == update_path(paths, refuges, path_id, name, points)
    IN  /\ paths' = o.paths
        /\ response' = Responded("update_path", o, {}, FALSE)

UpdatePath ==
    /\ response = NoResponse
    /\ UNCHANGED <<refuges, issued, disk, tmp, proc>>
    /\ \E path_id \in Ids(paths) \cup {0}, name \in PathNames, points \in PointLists :
          UpdatePathOf(path_id, name, points)

NextPaths ==
    \/ Create
    \/ Update
    \/ Delete
    \/ CreatePath
    \/ UpdatePath
    \/ SendResponse

SpecPaths == Init /\ [][NextPaths]_vars

(***************************************************************************)
(* The keep-one-part step of create_refuge, on a strip of WideW cells: the *)
(* store holds one or two refuges of any shape, and a refuge named B is    *)
(* created from a rectangle whose ring starts at its left or right end.    *)
(***************************************************************************)
WideCells == 0..(WideW - 1)

CarveName == <<"B">>

\* one or two stored refuges, named A and C, of disjoint area
CarveStores ==
    {<<[id |-> 1, name |-> <<"A">>, polygon |-> g]>> : g \in (SUBSET WideCells) \ {{}}}
        \cup {<<[id |-> 1, name |-> <<"A">>, polygon |-> gh[1]],
                [id |-> 2, name |-> <<"C">>, polygon |-> gh[2]]>> :
                 gh \in {k \in ((SUBSET WideCells) \ {{}}) \X ((SUBSET WideCells) \ {{}}) :
                            k[1] \cap k[2] = {}}}

CarvePolygons ==
    LET boxes == {{c \in WideCells : lo <= c /\ c <= hi} : lo \in WideCells, hi \in WideCells}
                     \ {{}}
    IN  {GeoJSON("Polygon", r, MinX(r)) : r \in boxes}
            \cup {GeoJSON("Polygon", r, MaxX(r) + 1) : r \in boxes}

InitCarve ==
    /\ refuges \in CarveStores
    /\ response = NoResponse
    /\ issued = Ids(refuges)
    /\ disk = Dumped(<<>>)
    /\ tmp = NoFile
    /\ proc = [p \in Procs |-> IdleProc]
    /\ paths = <<>>

CarveCreate ==
    /\ response = NoResponse
    /\ UNCHANGED store
    /\ \E polygon \in CarvePolygons : CreateRefuge(CarveName, polygon)

NextCarve ==
    \/ CarveCreate
    \/ SendResponse

SpecCarve == InitCarve /\ [][NextCarve]_vars

(***************************************************************************)
(* The file-level specifications open up _read_refuges and _write_refuges: *)
(* a request reads refuges.json and runs its handler on what it read, then *)
(* writes the result in steps: open refuges.json.tmp, dump, flush and      *)
(* fsync, replace.  Any step of the write may raise, and the process may   *)
(* die at any step.                                                        *)
(*   disk  the text of refuges.json                                        *)
(*   tmp   refuges.json.tmp: whether it exists, and its text               *)
(*   proc  the request each worker serves:                                 *)
(*           pc      the step it is at                                     *)
(*           data    the collection it is writing                          *)
(*           base    history: the collection it read                       *)
(*           off     tokens written through its file handle                *)
(*           handle  the file its handle is open on                        *)
(*           failed  history: its write raised                             *)
(*           code    the status it returns                                 *)
(*           served  the requests the worker has taken, at most MaxServed  *)
(* SpecCommit serves one request at a time, with the faults; in            *)
(* SpecConcurrent two workers serve requests at once, without faults.      *)
(***************************************************************************)
StoreNames == {<<"A">>, <<"B", " ">>}

StorePolygons == {GeoJSON("Polygon", Box(0, 0), 0), GeoJSON("Polygon", Box(0, 1), 0)}

\* the mutating requests of the file-level specifications
StoreRequests(refs) ==
    {[op |-> "create", id |-> 0, name |-> n, polygon |-> q] :
        n \in StoreNames, q \in StorePolygons}
    \cup {[op |-> "update", id |-> i, name |-> n, polygon |-> NoGeometry] :
            i \in Ids(refs), n \in StoreNames}
    \cup {[op |-> "delete", id |-> i, name |-> <<>>, polygon |-> NoGeometry] :
            i \in Ids(refs) \cup {0}}

Handle(refs, req) ==
    CASE req.op = "create" -> create_refuge(refs, req.name, req.polygon)
      [] req.op = "update" -> {update_refuge(refs, req.id, req.name)}
      [] req.op = "delete" -> {delete_refuge(refs, req.id)}

\* mutant of tmp_path: refuges.json is written in place
refuges_file_path == "disk"

\* the path _write_refuges opens for writing
tmp_path == "tmp"

\* no other request is being served
Alone(p) == \A q \in Procs \ {p} : proc[q].pc = "idle"

\* mutant of MayBegin: a request waits for the others to finish
MayBeginAlone(p) == Alone(p)

\* what a request waits for before it reads the collection: nothing
MayBegin(p) == TRUE

\* the handler up to its _write_refuges call: refuges = _read_refuges(), the
\* checks and the new collection
ReadAndHandle(p) ==
    /\ proc[p].pc = "idle"
    /\ proc[p].served < MaxServed
    /\ MayBegin(p)
    /\ LET refs == _read_refuges(disk)
       IN  \E req \in StoreRequests(refs) : \E o \in Handle(refs, req) :
              /\ o.id <= MaxId
              /\ proc' = [proc EXCEPT ![p] =
                            [IdleProc EXCEPT !.served = proc[p].served + 1,
                                             !.pc = IF o.writes > 0 THEN "open" ELSE "done",
                                             !.data = o.refuges,
                                             !.base = refs,
                                             !.code = o.code]]
    /\ UNCHANGED <<disk, tmp>>

\* the handles of the other requests after the file they are open on has
\* been moved or unlinked
Rehandled(p, moved) ==
    [q \in Procs |->
        IF q = p THEN proc[q]
        ELSE [proc[q] EXCEPT !.handle = IF @ = "tmp" THEN moved
                                        ELSE IF @ = "disk" /\ moved = "disk" THEN "orphan"
                                        ELSE @]]

\* open(tmp_path, 'w'): the file is created, or truncated
OpenTmpFile(p) ==
    /\ proc[p].pc = "open"
    /\ IF tmp_path = "tmp"
       THEN tmp' = File(<<>>) /\ UNCHANGED disk
       ELSE disk' = <<>> /\ UNCHANGED tmp
    /\ proc' = [proc EXCEPT ![p].pc = "dump", ![p].handle = tmp_path, ![p].off = 0]

\* json.dump: the next token of the text goes to the file the handle is on
DumpJson(p) ==
    LET text == Dumped(proc[p].data)
        pos == proc[p].off + 1
    IN  /\ proc[p].pc = "dump"
        /\ CASE proc[p].handle = "tmp" ->
                  tmp' = File(WriteAt(tmp.text, pos, text[pos])) /\ UNCHANGED disk
             [] proc[p].handle = "disk" ->
                  disk' = WriteAt(disk, pos, text[pos]) /\ UNCHANGED tmp
             [] OTHER -> UNCHANGED <<disk, tmp>>
        /\ proc' = [proc EXCEPT ![p].off = pos,
                                ![p].pc = IF pos = Len(text) THEN "sync" ELSE "dump"]

\* f.flush(), os.fsync(f.fileno()) and the end of the with block
FlushAndSync(p) ==
    /\ proc[p].pc = "sync"
    /\ proc' = [proc EXCEPT ![p].pc = "replace", ![p].handle = "none"]
    /\ UNCHANGED <<disk, tmp>>

\* os.replace(tmp_path, REFUGES_FILE), then the handler's success return; with
\* no file at tmp_path it raises, and the handler returns the same
OsReplace(p) ==
    /\ proc[p].pc = "replace"
    /\ IF tmp_path = "tmp" /\ tmp.exists
       THEN /\ disk' = tmp.text
            /\ tmp' = NoFile
            /\ proc' = [Rehandled(p, "disk") EXCEPT ![p].pc = "done"]
       ELSE /\ UNCHANGED <<disk, tmp>>
            /\ proc' = [proc EXCEPT ![p].pc = "done", ![p].failed = (tmp_path = "tmp")]

\* a step of the write raises: _write_refuges logs, removes tmp_path when it
\* exists and returns; the handler goes on to its success return
WriteRaises(p) ==
    /\ proc[p].pc \in {"open", "dump", "sync", "replace"}
    /\ tmp' = NoFile
    /\ proc' = [Rehandled(p, "orphan") EXCEPT ![p].pc = "done", ![p].handle = "none",
                                              ![p].failed = TRUE]
    /\ UNCHANGED disk

\* the response is sent
Return(p) ==
    /\ proc[p].pc = "done"
    /\ proc' = [proc EXCEPT ![p] = Idle(p)]
    /\ UNCHANGED <<disk, tmp>>

\* the worker dies: nothing is cleaned up, no response is sent
ProcessCrash(p) ==
    /\ proc[p].pc \in {"open", "dump", "sync", "replace"}
    /\ proc' = [proc EXCEPT ![p] = Idle(p)]
    /\ UNCHANGED <<disk, tmp>>

handled == <<refuges, response, issued, paths>>

BeginSerial == UNCHANGED handled /\ \E p \in Procs : Alone(p) /\ ReadAndHandle(p)

BeginConcurrent == UNCHANGED handled /\ \E p \in Procs : ReadAndHandle(p)

OpenTmp == UNCHANGED handled /\ \E p \in Procs : OpenTmpFile(p)

Dump == UNCHANGED handled /\ \E p \in Procs : DumpJson(p)

Sync == UNCHANGED handled /\ \E p \in Procs : FlushAndSync(p)

Replace == UNCHANGED handled /\ \E p \in Procs : OsReplace(p)

Raise == UNCHANGED handled /\ \E p \in Procs : WriteRaises(p)

Respond == UNCHANGED handled /\ \E p \in Procs : Return(p)

Crash == UNCHANGED handled /\ \E p \in Procs : ProcessCrash(p)

NextCommit ==
    \/ BeginSerial
    \/ OpenTmp
    \/ Dump
    \/ Sync
    \/ Replace
    \/ Raise
    \/ Respond
    \/ Crash

SpecCommit == Init /\ [][NextCommit]_vars

NextConcurrent ==
    \/ BeginConcurrent
    \/ OpenTmp
    \/ Dump
    \/ Sync
    \/ Replace
    \/ Respond

SpecConcurrent == Init /\ [][NextConcurrent]_vars

(***************************************************************************)
(* Read faults: opening or loading refuges.json raises (the file cannot be *)
(* opened, or does not parse); _read_refuges logs and returns [].  One     *)
(* request is served at a time and the write does not fail.                *)
(***************************************************************************)
\* the handler up to its _write_refuges call when its read raised
ReadRaisesAndHandle(p) ==
    /\ proc[p].pc = "idle"
    /\ proc[p].served < MaxServed
    /\ MayBegin(p)
    /\ LET refs == <<>>
       IN  \E req \in StoreRequests(refs) : \E o \in Handle(refs, req) :
              /\ o.id <= MaxId
              /\ proc' = [proc EXCEPT ![p] =
                            [IdleProc EXCEPT !.served = proc[p].served + 1,
                                             !.pc = IF o.writes > 0 THEN "open" ELSE "done",
                                             !.data = o.refuges,
                                             !.base = refs,
                                             !.code = o.code]]
    /\ UNCHANGED <<disk, tmp>>

BeginUnread == UNCHANGED handled /\ \E p \in Procs : Alone(p) /\ ReadRaisesAndHandle(p)

NextReadFault ==
    \/ BeginSerial
    \/ BeginUnread
    \/ OpenTmp
    \/ Dump
    \/ Sync
    \/ Replace
    \/ Respond

SpecReadFault == Init /\ [][NextReadFault]_vars

(***************************************************************************)
(* Properties.                                                             *)
(***************************************************************************)
MaxOf(S) == CHOOSE m \in S : \A x \in S : x <= m

PolygonOf(refs, refuge_id) == refs[FindIdx(refs, refuge_id)].polygon

\* the name, stripped and lowered, is the name of a stored refuge
DuplicateOf(name, refs) ==
    \E i \in DOMAIN refs : Lower(Strip(refs[i].name)) = Lower(Strip(name))

WellFormed(polygon) == polygon.type = "Polygon" /\ polygon.cells # {}

\* C1: every two distinct stored refuges have an intersection of zero area,
\* in every state reached by create, rename, delete, adjoin, subtract and
\* apply-overlays requests from the empty store.
C1_NonOverlap ==
    \A i \in DOMAIN refuges, j \in DOMAIN refuges :
        i # j => Area(refuges[i].polygon \cap refuges[j].polygon) = 0

\* an apply-overlays whose adjoin overlay ran over another refuge succeeded
C1_Witness ==
    /\ Len(refuges) = 2
    /\ response.op = "apply" /\ response.kind = "ok" /\ response.overlapped # {}

\* the overlays split a one-piece target into several pieces
WouldFragment(refs, refuge_id, overlays) ==
    /\ FindIdx(refs, refuge_id) # 0
    /\ _count_components(PolygonOf(refs, refuge_id)) = 1
    /\ _count_components(DifferenceAll(PolygonOf(refs, refuge_id), PolygonGeoms(overlays))) > 1

\* C2: a POST subtract whose overlays would split the target into more than
\* one component is rejected with the fragmentation error, status 400, and
\* the persisted collection is what it was before the call.
C2_FragmentationRejected ==
    [][response'.op = "subtract" =>
       \A refuge_id \in Targets, overlays \in OverlayLists :
          (/\ SubtractOverlays(refuge_id, overlays)
           /\ WouldFragment(refuges, refuge_id, overlays))
          => (response'.code = 400 /\ response'.kind = "fragmentation" /\ refuges' = refuges)]_vars

\* C3: an apply-overlays request either succeeds with exactly one write of
\* the collection, or returns an error, writes nothing and leaves the
\* persisted collection as it was.
C3_ApplyAllOrNothing ==
    [][response'.op = "apply"
         => \/ response'.kind = "ok" /\ response'.code = 200 /\ response'.writes = 1
            \/ /\ response'.kind # "ok" /\ response'.code >= 400
               /\ response'.writes = 0 /\ refuges' = refuges]_vars

\* an apply-overlays that brought adjoin overlays failed in its subtract phase
C3_Witness ==
    /\ response.op = "apply" /\ response.adding
    /\ response.kind \in {"fragmentation", "remove_entire"}

\* C4: validate-overlay leaves the persisted collection (ids, names,
\* geometries, order) as it was, whatever it returns.
C4_ValidateDryRun == [][response'.op = "validate" => refuges' = refuges]_vars

\* a validation reported that the subtraction would fragment the refuge
C4_Witness == response.op = "validate" /\ response.kind = "fragmentation"

\* the error kinds of the overlay operations
ErrorKind(o) ==
    IF o.kind \in {"ok", "not_found", "remove_entire", "fragmentation"} THEN o.kind
    ELSE "invalid"

\* C5: for every target id and overlay, validate-overlay with operation
\* "subtract" succeeds exactly when POST subtract with that one overlay would,
\* and returns the same error kind otherwise.
C5_ValidatePredictsSubtract ==
    \A refuge_id \in Targets, overlay \in OverlayPolygons :
        ErrorKind(validate_overlay_operation(refuges, refuge_id, overlay, "subtract"))
            = ErrorKind(subtract_overlays(refuges, refuge_id, <<overlay>>))

\* C6: every stored refuge has a non-empty name, and no two stored refuges
\* have names equal ignoring case and surrounding whitespace.
C6_NameInvariant ==
    /\ \A i \in DOMAIN refuges : refuges[i].name # <<>> /\ Strip(refuges[i].name) # <<>>
    /\ \A i \in DOMAIN refuges, j \in DOMAIN refuges :
          i # j => Lower(Strip(refuges[i].name)) # Lower(Strip(refuges[j].name))

\* a refuge was renamed while another refuge is stored
C6_Witness == Len(refuges) = 2 /\ response.op = "update" /\ response.kind = "ok"

C8_IdsPositiveDistinct ==
    /\ \A i \in DOMAIN refuges : refuges[i].id > 0
    /\ \A i \in DOMAIN refuges, j \in DOMAIN refuges : i # j => refuges[i].id # refuges[j].id

\* C8: every successful create gives the new refuge the id max(stored ids) + 1,
\* or 1 when the store is empty, and the stored ids are always positive and
\* pairwise distinct.
C8_IdAssignment ==
    /\ []C8_IdsPositiveDistinct
    /\ [][response'.op = "create" /\ response'.kind = "ok"
            => /\ response'.id = IF refuges = <<>> THEN 1 ELSE MaxOf(Ids(refuges)) + 1
               /\ Len(refuges') = Len(refuges) + 1
               /\ refuges'[Len(refuges')].id = response'.id]_vars

\* a create got id 3 while only one other refuge is stored
C8_Witness ==
    /\ response.op = "create" /\ response.kind = "ok" /\ response.id = 3
    /\ Len(refuges) = 2

\* C9: the id of a refuge that has been deleted is never given to a refuge
\* created later.
C9_IdsNeverReused ==
    [][response'.op = "create" /\ response'.kind = "ok"
         => response'.id \notin (issued \ Ids(refuges))]_vars

\* C10: when a refuge adjoins an overlay that overlaps another stored refuge
\* F, F's stored geometry shrinks by exactly the overlapped area, and F is
\* removed from the store when the overlay covers it entirely.
C10_CrossRegionCleanup ==
    [][response'.op = "adjoin" /\ response'.kind = "ok" =>
       \A overlays \in {ov \in OverlayLists : Overlapped(refuges, 0, PolygonGeoms(ov)) # {}},
          refuge_id \in Targets :
          AdjoinOverlays(refuge_id, overlays)
          => \A i \in DOMAIN refuges :
                LET F == refuges[i]
                    overlay == UnionAll(PolygonGeoms(overlays))
                IN  (F.id # refuge_id /\ F.polygon \cap overlay # {})
                    => IF F.polygon \subseteq overlay
                       THEN F.id \notin Ids(refuges')
                       ELSE /\ F.id \in Ids(refuges')
                            /\ PolygonOf(refuges', F.id) = F.polygon \ overlay]_vars

\* C10 as amended: when a refuge adjoins an overlay that overlaps another
\* stored refuge F, in part or entirely, F stays in the store with its
\* geometry unchanged, and the target gains none of F's area: the overlapped
\* area is taken out of the overlay, not out of F.
C10_OtherRefugesKeepTheirArea ==
    [][response'.op = "adjoin" /\ response'.kind = "ok" =>
       \A overlays \in {ov \in OverlayLists : Overlapped(refuges, 0, PolygonGeoms(ov)) # {}},
          refuge_id \in Targets :
          AdjoinOverlays(refuge_id, overlays)
          => \A i \in DOMAIN refuges :
                LET F == refuges[i]
                    overlay == UnionAll(PolygonGeoms(overlays))
                IN  (F.id # refuge_id /\ F.polygon \cap overlay # {})
                    => /\ F.id \in Ids(refuges')
                       /\ PolygonOf(refuges', F.id) = F.polygon
                       /\ PolygonOf(refuges', refuge_id) \cap F.polygon = {}]_vars

\* an adjoin whose overlay ran over another refuge succeeded
C10_Witness ==
    /\ response.op = "adjoin" /\ response.kind = "ok" /\ response.overlapped # {}

\* the area of all the stored refuges
TakenArea(refs) == UNION {refs[i].polygon : i \in DOMAIN refs}

\* C11: after a successful adjoin or apply-overlays on a target, the area the
\* target gained is disjoint from the geometry every other refuge had before
\* the request.
C11_AdjoinClaimsNothingOwned ==
    [][response'.op \in {"adjoin", "apply"} /\ response'.kind = "ok" =>
       LET T == response'.id
           added == PolygonOf(refuges', T) \ PolygonOf(refuges, T)
       IN  /\ T \in Ids(refuges) /\ T \in Ids(refuges')
           /\ \A i \in DOMAIN refuges :
                 refuges[i].id # T => added \cap refuges[i].polygon = {}]_vars

\* an apply-overlays whose adjoin overlays ran over another refuge succeeded
\* and left the target with more than one cell
C11_Witness ==
    /\ response.op = "apply" /\ response.kind = "ok"
    /\ response.adding /\ response.overlapped # {}
    /\ Area(PolygonOf(refuges, response.id)) >= 2

\* C12: a successful create stores a geometry inside the candidate less the
\* area of all the stored refuges, and equal to that difference when the
\* difference is one connected polygon.
C12_ContainmentCarve ==
    [][response'.op = "create" /\ response'.kind = "ok" =>
       \A name \in RawNames, polygon \in CreatePayloads :
          CreateRefuge(name, polygon)
          => LET left == polygon.cells \ TakenArea(refuges)
                 stored == refuges'[Len(refuges')].polygon
             IN  /\ stored \subseteq left
                 /\ Cardinality(Geoms(left)) = 1 => stored = left]_vars

\* a create whose candidate ran over a stored refuge succeeded
C12_Witness ==
    /\ response.op = "create" /\ response.kind = "ok"
    /\ response.overlapped # {}

\* C13: a successful create appends exactly one refuge and leaves every
\* refuge stored before as it was; a stored refuge the candidate encloses
\* stays out of the new refuge's geometry.
C13_CreateKeepsExisting ==
    [][response'.op = "create" /\ response'.kind = "ok" =>
       /\ Len(refuges') = Len(refuges) + 1
       /\ SubSeq(refuges', 1, Len(refuges)) = refuges
       /\ \A name \in RawNames, polygon \in CreatePayloads :
             CreateRefuge(name, polygon)
             => \A i \in DOMAIN refuges :
                   refuges[i].polygon \subseteq polygon.cells
                   => refuges'[Len(refuges')].polygon \cap refuges[i].polygon = {}]_vars

\* a create succeeded whose candidate ran over the one-cell refuge stored
\* first, that is, enclosed it
C13_Witness ==
    /\ response.op = "create" /\ response.kind = "ok"
    /\ Len(refuges) = 2 /\ Area(refuges[1].polygon) = 1
    /\ response.overlapped = {refuges[1].id}

\* C14: a create whose candidate is wholly covered by the stored refuges is
\* answered 409 and adds no refuge.
C14_FullyCoveredConflict ==
    [][response'.op = "create" =>
       \A name \in {n \in RawNames : Strip(n) # <<>> /\ ~DuplicateOf(n, refuges)},
          polygon \in {q \in CreatePayloads :
                          WellFormed(q) /\ q.cells \subseteq TakenArea(refuges)} :
          CreateRefuge(name, polygon)
          => response'.code = 409 /\ refuges' = refuges]_vars

\* C18: a create, rename, delete, adjoin, subtract or apply-overlays request
\* answered with an error writes nothing and leaves the collection as it was.
C18_ErrorsWriteNothing ==
    [][(/\ response'.op \in {"create", "update", "delete", "adjoin", "subtract", "apply"}
        /\ response'.code >= 400)
       => response'.writes = 0 /\ refuges' = refuges]_vars

\* a subtract that would have removed the whole refuge was refused
C18_Witness ==
    /\ response.op = "subtract" /\ response.kind = "remove_entire"
    /\ refuges # <<>>

\* C19: a list request leaves the stored ids, names and geometries, and the
\* id the next create will give, as they were.
C19_ListChangesNothing ==
    [][response'.op = "list"
         => /\ refuges' = refuges
            /\ NewId(refuges') = NewId(refuges)
            /\ response'.writes = 0]_vars

\* a list was served after a refuge other than the last was deleted
C19_Witness ==
    /\ response.op = "list" /\ response.code = 200
    /\ Len(refuges) = 1 /\ refuges[1].id = 2

\* C20: a rename with a non-empty name is answered 404 when the id is not
\* stored and 409 when another refuge holds the name, both with no change;
\* otherwise it changes the name of that refuge and nothing else.
C20_RenameOnlyName ==
    [][response'.op = "update" =>
       \A refuge_id \in Targets, name \in {n \in RawNames : Strip(n) # <<>>} :
          UpdateRefuge(refuge_id, name)
          => LET idx == FindIdx(refuges, refuge_id)
                 held == \E i \in DOMAIN refuges :
                            /\ refuges[i].id # refuge_id
                            /\ Lower(Strip(refuges[i].name)) = Lower(Strip(name))
             IN  IF refuge_id \notin Ids(refuges)
                 THEN response'.code = 404 /\ refuges' = refuges
                 ELSE IF held
                 THEN response'.code = 409 /\ refuges' = refuges
                 ELSE /\ response'.code = 200
                      /\ refuges' = [refuges EXCEPT ![idx].name = Strip(name)]]_vars

\* the refuge stored first was renamed while another refuge is stored after it
C20_Witness ==
    /\ response.op = "update" /\ response.kind = "ok"
    /\ Len(refuges) = 2 /\ response.id = refuges[1].id

\* C15: when the write of the collection raises, refuges.json keeps the
\* collection it held and the request returns a storage error, not a success.
C15_FailedCommitReported ==
    \A p \in Procs :
        (proc[p].pc = "done" /\ proc[p].failed)
        => /\ _read_refuges(disk) = proc[p].base
           /\ proc[p].code >= 500

\* C16: whatever the step at which a commit raises or the process dies,
\* refuges.json loads, and it changes only by taking, whole, the collection
\* of the request that replaces it.
C16_CrashSafeCommit ==
    /\ []Loadable(disk)
    /\ [][disk' # disk
            => \E p \in Procs : /\ proc[p].pc = "replace"
                                /\ disk' = Dumped(proc[p].data)
                                /\ _read_refuges(disk') = proc[p].data]_vars

\* a worker died after a partial write: refuges.json.tmp holds an unfinished
\* text while refuges.json holds a refuge
C16_Witness ==
    /\ \A p \in Procs : proc[p].pc = "idle"
    /\ tmp.exists /\ tmp.text # <<>> /\ ~Loadable(tmp.text)
    /\ _read_refuges(disk) # <<>>

\* C17: nothing keeps a request from reading the collection while another
\* request is between its read and its write.
C17_NoMutualExclusion ==
    \A p \in Procs, q \in Procs :
        (/\ p # q /\ proc[p].pc \notin {"idle", "done"}
         /\ proc[q].pc = "idle" /\ proc[q].served < MaxServed)
        => ENABLED ReadAndHandle(q)

\* the lost update: two creates read the empty collection, both returned 201,
\* and refuges.json holds one refuge
C17_Witness ==
    /\ \A p \in Procs : /\ proc[p].pc = "done" /\ proc[p].code = 201
                        /\ proc[p].base = <<>> /\ ~proc[p].failed
    /\ proc[1].data # proc[2].data
    /\ Loadable(disk) /\ Len(_read_refuges(disk)) = 1

\* the polygons of the target united with the overlays that intersect or
\* touch the geometry the target had before
ConnectedToTarget(current_geom, overlay_geoms) ==
    UNION {part \in Geoms(current_geom \cup UnionAll(overlay_geoms)) :
              Intersects(part, current_geom) \/ Touches(part, current_geom)}

\* C23: after a successful adjoin or apply-overlays, the target's stored
\* geometry lies within the polygons of the union of its former geometry and
\* the surviving overlays that intersect or touch the former geometry: no
\* island is stored.
C23_AdjoinConnectivityFilter ==
    /\ [][response'.op = "adjoin" /\ response'.kind = "ok" =>
          \A refuge_id \in Ids(refuges), overlays \in OverlayLists :
             AdjoinOverlays(refuge_id, overlays)
             => PolygonOf(refuges', refuge_id) \subseteq
                   ConnectedToTarget(PolygonOf(refuges, refuge_id),
                                     CleanOverlays(PolygonGeoms(overlays), refuges, refuge_id))]_vars
    /\ [][response'.op = "apply" /\ response'.kind = "ok" =>
          \A refuge_id \in Ids(refuges), adjoin_payload \in ApplyLists,
             subtract_payload \in ApplyLists :
             ApplyOverlayChanges(refuge_id, adjoin_payload, subtract_payload)
             => PolygonOf(refuges', refuge_id) \subseteq
                   ConnectedToTarget(PolygonOf(refuges, refuge_id),
                                     CleanOverlays(_to_geometries(adjoin_payload),
                                                   refuges, refuge_id))]_vars

\* C25: an apply-overlays request on a stored refuge none of whose overlays
\* is left after parsing and cleaning is answered 400 and writes nothing.
C25_NothingUsableRejected ==
    [][response'.op = "apply" =>
       \A refuge_id \in Ids(refuges) :
       \A adjoin_payload \in {a \in ApplyLists :
              CleanOverlays(_to_geometries(a), refuges, refuge_id) = <<>>},
          subtract_payload \in {b \in ApplyLists : _to_geometries(b) = <<>>} :
          ApplyOverlayChanges(refuge_id, adjoin_payload, subtract_payload)
          => response'.code = 400 /\ response'.writes = 0 /\ refuges' = refuges]_vars

\* the ids of the refuges, in stored order
IdsInOrder(refs) == [i \in DOMAIN refs |-> refs[i].id]

\* C27: a successful adjoin, subtract or apply-overlays keeps the target's id
\* and name, stores it once, and keeps the order of the refuges that remain.
C27_TargetMutatedInPlace ==
    [][response'.op \in {"adjoin", "subtract", "apply"} /\ response'.kind = "ok" =>
       LET T == response'.id
       IN  /\ Cardinality({i \in DOMAIN refuges' : refuges'[i].id = T}) = 1
           /\ refuges'[FindIdx(refuges', T)].name = refuges[FindIdx(refuges, T)].name
           /\ IdsInOrder(refuges')
                = SelectSeq(IdsInOrder(refuges), LAMBDA id : id \in Ids(refuges'))]_vars

\* an adjoin on the refuge stored first succeeded with another stored after it
C27_Witness ==
    /\ response.op = "adjoin" /\ response.kind = "ok"
    /\ Len(refuges) = 2 /\ refuges[1].id = response.id

\* C28: every stored refuge has a geometry that is not empty and has a
\* positive area.
C28_PositiveArea ==
    \A i \in DOMAIN refuges :
        ~IsEmpty(refuges[i].polygon) /\ Area(refuges[i].polygon) > 0

\* a subtract left its target with one cell while another refuge is stored
C28_Witness ==
    /\ response.op = "subtract" /\ response.kind = "ok"
    /\ Len(refuges) = 2 /\ Area(PolygonOf(refuges, response.id)) = 1

\* C24: when the candidate less the stored refuges is several polygons, a
\* successful create stores exactly one of them: the one that holds the first
\* vertex of the input ring if one does, otherwise one nearest to that vertex.
C24_CreateKeepsOnePart ==
    [][response'.op = "create" /\ response'.kind = "ok" =>
       \A polygon \in CarvePolygons :
          CreateRefuge(CarveName, polygon)
          => LET parts == Geoms(polygon.cells \ TakenArea(refuges))
                 stored == refuges'[Len(refuges')].polygon
             IN  Cardinality(parts) > 1
                 => /\ stored \in parts
                    /\ (\E part \in parts : CoversPoint(part, polygon.first))
                          => CoversPoint(stored, polygon.first)
                    /\ \A part \in parts :
                          Distance(stored, polygon.first) <= Distance(part, polygon.first)]_vars

\* a create kept the nearest of two parts, neither of which holds the first
\* vertex: the ring started inside the first stored refuge
C24_Witness ==
    /\ response.op = "create" /\ response.kind = "ok" /\ Len(refuges) = 3
    /\ refuges[1].polygon = {0} /\ refuges[2].polygon = {2}
    /\ refuges[3].polygon = {1}

\* C21: a delete of a stored id removes that refuge and nothing else: the
\* other refuges stay as they were and in their order, and the paths stay as
\* they were, tags included; a delete of an id that is not stored is answered
\* 404 and changes nothing.
C21_DeleteCascadesNowhere ==
    [][response'.op = "delete" =>
       \A refuge_id \in Targets :
          DeleteRefuge(refuge_id)
          => /\ paths' = paths
             /\ refuge_id \in Ids(refuges)
                   => /\ response'.code = 200
                      /\ Len(refuges') = Len(refuges) - 1
                      /\ refuges' = SelectSeq(refuges, LAMBDA r : r.id # refuge_id)
             /\ refuge_id \notin Ids(refuges)
                   => response'.code = 404 /\ refuges' = refuges]_vars

\* a refuge was deleted while another one is stored after it, and a
\* path keeps the id of the deleted refuge
C21_Witness ==
    /\ response.op = "delete" /\ response.kind = "ok"
    /\ refuges # <<>> /\ refuges[Len(refuges)].id > response.id
    /\ \E i \in DOMAIN paths : paths[i].refuge_id = response.id
    /\ response.id \notin Ids(refuges)

\* a stored refuge covers the point
CoveredByStored(refs, pt) ==
    pt # NoCoordinate /\ \E i \in DOMAIN refs : CoversPoint(refs[i].polygon, pt)

\* C22: a path update whose last point no stored refuge covers is rejected
\* and leaves the paths as they were; a successful path update gives the path
\* the id and the name of the refuge the query returns for the last point.
C22_PathTagging ==
    [][response'.op = "update_path" =>
       \A path_id \in Ids(paths) \cup {0}, name \in PathNames,
          points \in PointLists \ {<<>>} :
          UpdatePathOf(path_id, name, points)
          => LET end_point == points[Len(points)]
                 matched == _find_refuge_containing_point(refuges, end_point)
                 idx == FindIdx(paths', path_id)
             IN  /\ ~CoveredByStored(refuges, end_point)
                       => response'.code = 400 /\ paths' = paths
                 /\ response'.kind # "ok" => paths' = paths
                 /\ response'.kind = "ok"
                       => /\ matched # 0
                          /\ paths'[idx].refuge_id = refuges[matched].id
                          /\ paths'[idx].refuge_name = refuges[matched].name]_vars

\* a path of two points was tagged with the refuge that covers its last
\* point and not its first
C22_Witness ==
    /\ response.op = "update_path" /\ response.kind = "ok"
    /\ \E i \in DOMAIN paths :
          /\ paths[i].id = response.id /\ Len(paths[i].points) = 2
          /\ ~CoveredByStored(refuges, paths[i].points[1])
          /\ paths[i].refuge_id \in Ids(refuges)

\* C26: for every point, the query returns the first refuge in stored order
\* whose geometry covers the point, and none exactly when no stored refuge
\* covers it; a path update, which asks the query, leaves the refuges as they
\* were.
C26_PointQuery ==
    /\ [](\A pt \in Vertices :
             LET found == _find_refuge_containing_point(refuges, pt)
             IN  /\ found = 0 <=> ~CoveredByStored(refuges, pt)
                 /\ found # 0
                       => /\ found \in DOMAIN refuges
                          /\ CoversPoint(refuges[found].polygon, pt)
                          /\ \A j \in 1..(found - 1) : ~CoversPoint(refuges[j].polygon, pt))
    /\ [][response'.op = "update_path" => refuges' = refuges]_vars

\* a path was tagged with the first of two refuges that both cover its last
\* point
C26_Witness ==
    /\ response.op = "update_path" /\ response.kind = "ok"
    /\ \E i \in DOMAIN paths :
          /\ paths[i].id = response.id /\ paths[i].points # <<>>
          /\ paths[i].refuge_id = refuges[1].id
          /\ Cardinality({j \in DOMAIN refuges :
                             CoversPoint(refuges[j].polygon,
                                         paths[i].points[Len(paths[i].points)])}) = 2

\* C29: while two requests commit at once, refuges.json always holds a
\* complete collection, and when a request that answers success ends its
\* write, refuges.json holds the complete collection of that request or of the
\* other request being served, never a text put together from both.
C29_ConcurrentFileIntegrity ==
    /\ [](Loadable(disk))
    /\ [][\A p \in Procs :
             proc[p].pc = "replace" /\ proc'[p].pc = "done" /\ proc[p].code \in {200, 201}
             => \/ disk' = Dumped(proc[p].data)
                \/ \E q \in Procs \ {p} :
                      proc[q].pc # "idle" /\ disk' = Dumped(proc[q].data)]_vars

\* the refuges of a text that loads
Persisted(text) == {Loaded(text)[i] : i \in DOMAIN Loaded(text)}

\* C30: a request whose read of refuges.json raised does not write, so when
\* a successful create replaces refuges.json every refuge that was persisted
\* is still persisted.
C30_ReadFailureKeepsData ==
    [][\A p \in Procs :
          /\ proc[p].pc = "idle" /\ proc'[p].pc # "idle" /\ proc'[p].base # _read_refuges(disk)
                => proc'[p].pc = "done" /\ proc'[p].code >= 400
          /\ proc[p].pc = "replace" /\ proc'[p].pc = "done" /\ proc[p].code = 201
                => Persisted(disk) \subseteq Persisted(disk')]_vars

====
